---------------------------- MODULE Spec2Model ----------------------------
(***************************************************************************)
(* StudyConnect server: the meetings router (src/routes/meetings.ts), the  *)
(* Prisma store it uses (Meeting, MeetingAttendee, User) and the Google    *)
(* Calendar adapter (src/calendar.ts), as a state machine.                 *)
(*                                                                         *)
(* Every request is a process held in a slot of procs; it advances by one  *)
(* action per awaited store or calendar call of its handler, so requests   *)
(* interleave exactly at the awaits of the code.  A finished request keeps *)
(* its response in the slot until Reap frees the slot.                     *)
(***************************************************************************)
EXTENDS Integers, Sequences, FiniteSets, Bags, TLC

VARIABLES
    clock,      \* the value new Date() returns
    meetings,   \* table Meeting: meeting id -> row
    attendees,  \* table MeetingAttendee: bag of rows (meetingId, userId, status)
    calendar,   \* the events of the creators' Google calendars
    nextId,     \* the next fresh meeting id
    procs,      \* slot -> the request being handled in it
    hist        \* summary of the request that finished last (sequential runs)

vars == <<clock, meetings, attendees, calendar, nextId, procs, hist>>

-----------------------------------------------------------------------------
(* Bounds *)

MaxTime == 3        \* the clock takes the values 0..MaxTime
MaxMeetings == 1    \* meetings created in one behaviour
MaxInFlight == 2    \* request slots

Slots == 1..MaxInFlight
MeetingIds == 1..MaxMeetings

-----------------------------------------------------------------------------
(* Text: a string is a sequence of characters; NULL is SQL NULL / JS null, *)
(* UNDEF is a property that is absent from the request.                    *)

NULL == <<"null">>
UNDEF == <<"undef">>

LowerChar(c) == IF c = "M" THEN "m" ELSE IF c = "A" THEN "a" ELSE c

ToLower(s) == [i \in 1..Len(s) |-> LowerChar(s[i])]

\* Prisma { contains: needle, mode: 'insensitive' }: a NULL column matches nothing
ContainsInsensitive(hay, needle) ==
    /\ hay # NULL
    /\ \E i \in 0..(Len(hay) - Len(needle)) :
           SubSeq(ToLower(hay), i + 1, i + Len(needle)) = ToLower(needle)

\* JS truthiness of an optional string: undefined, null and "" are falsy
Truthy(s) == s # UNDEF /\ s # NULL /\ s # <<>>

\* a ?? undefined and Prisma's handling of an undefined create field: NULL column
OrNull(s) == IF s = UNDEF THEN NULL ELSE s

-----------------------------------------------------------------------------
(* Users and actors *)

\* rows of table User; u1 has granted calendar access (refreshToken set)
Users == {"u1", "u2"}

RefreshToken(u) == IF u = "u1" THEN "tok" ELSE "none"

HasRefreshToken(u) == u \in Users /\ RefreshToken(u) # "none"

\* req.user after requireAuth: a session user, or the bearer admin {id:'admin', role:'admin'}
Actors == Users \cup {"admin"}

\* who may send a request: a session user, the bearer of ADMIN_TOKEN, or a client
\* with neither a session nor the token
Callers == Actors \cup {"anon"}

\* requireAuth accepting every request
requireAuthNone(caller) == TRUE

\* requireAuth: req.user is set by the session or by the admin bearer token
requireAuth(caller) == caller \in Actors

Role(a) == IF a = "admin" THEN "admin" ELSE "user"

NoEvent == 0   \* googleEventId IS NULL

-----------------------------------------------------------------------------
(* Store operations *)

AttendeeRow(m, u) == [meetingId |-> m, userId |-> u, status |-> "going"]

RowsOf(att, m, u) == {r \in DOMAIN att : r.meetingId = m /\ r.userId = u}

\* number of MeetingAttendee rows of the pair (m, u)
CountOf(att, m, u) ==
    LET rows == RowsOf(att, m, u)
    IN  IF rows = {} THEN 0 ELSE BagCardinality([r \in rows |-> att[r]])

\* AttendeeCreateResult without the foreign key on meetingId
AttendeeCreateResultNoMeetingKey(att, mtgs, m, u) ==
    IF RowsOf(att, m, u) # {} THEN "P2002"
    ELSE IF u \notin Users THEN "P2003"
    ELSE "ok"

\* AttendeeCreateResult without the unique index on (meetingId, userId)
AttendeeCreateResultNoUnique(att, mtgs, m, u) ==
    IF m \notin DOMAIN mtgs \/ u \notin Users THEN "P2003" ELSE "ok"

\* prisma.meetingAttendee.create: the error code of the insert, or "ok".
\* P2002: unique index MeetingAttendee_meetingId_userId_key; P2003: foreign keys.
AttendeeCreateResult(att, mtgs, m, u) ==
    IF RowsOf(att, m, u) # {} THEN "P2002"
    ELSE IF m \notin DOMAIN mtgs \/ u \notin Users THEN "P2003"
    ELSE "ok"

\* AttendeeInsert adding a record of the meeting for every user
AttendeeInsertEveryone(att, m, u) == att (+) SetToBag({AttendeeRow(m, v) : v \in Users})

\* the row prisma.meetingAttendee.create adds
AttendeeInsert(att, m, u) == att (+) SetToBag({AttendeeRow(m, u)})

\* AttendeeDeleteMany with the userId condition of the where clause lost
AttendeeDeleteManyAnyUser(att, m, u) ==
    [r \in {x \in DOMAIN att : x.meetingId # m} |-> att[r]]

\* prisma.meetingAttendee.deleteMany({ where: { meetingId, userId } })
AttendeeDeleteMany(att, m, u) ==
    [r \in {x \in DOMAIN att : ~(x.meetingId = m /\ x.userId = u)} |-> att[r]]

\* prisma.meetingAttendee.deleteMany({ where: { meetingId } })
AttendeeDeleteOfMeeting(att, m) ==
    [r \in {x \in DOMAIN att : x.meetingId # m} |-> att[r]]

\* include: { attendees: true }
AttendeesOf(att, m) == [r \in {x \in DOMAIN att : x.meetingId = m} |-> att[r]]

MeetingDelete(mtgs, m) == [k \in DOMAIN mtgs \ {m} |-> mtgs[k]]

-----------------------------------------------------------------------------
(* Request bodies and their validation *)

NoTime == -1   \* startTime / endTime absent from the body

Body(title, description, subject, level, specialization, startTime, endTime, location, onlineUrl) ==
    [title |-> title, description |-> description, subject |-> subject,
     level |-> level, specialization |-> specialization,
     startTime |-> startTime, endTime |-> endTime,
     location |-> location, onlineUrl |-> onlineUrl]

\* bodies sent to POST /, valid and invalid
CreateBodies ==
    { Body(<<"M", "a">>, UNDEF, <<"M", "a">>, <<"1">>, UNDEF, 1, 2, <<"r">>, UNDEF),
      Body(<<"b">>, <<"m", "a">>, NULL, UNDEF, <<"s">>, 2, 3, UNDEF, <<"u">>),
      Body(<<"b">>, UNDEF, UNDEF, UNDEF, UNDEF, 2, 2, UNDEF, UNDEF),
      Body(<<>>, UNDEF, UNDEF, UNDEF, UNDEF, 1, 2, UNDEF, UNDEF) }

\* bodies sent to PATCH /:id, valid and invalid
PatchBodies ==
    { Body(<<"A">>, NULL, UNDEF, UNDEF, UNDEF, NoTime, 1, <<>>, UNDEF),
      Body(UNDEF, UNDEF, UNDEF, UNDEF, UNDEF, 3, 1, UNDEF, UNDEF) }

\* z.string().min(1) title, iso times, refine(endTime > startTime)
CreateMeetingSchema(b) ==
    /\ b.title # UNDEF /\ b.title # NULL /\ Len(b.title) >= 1
    /\ b.startTime # NoTime /\ b.endTime # NoTime
    /\ b.endTime > b.startTime

\* every field optional; the refinement only compares when both times are present
PatchMeetingSchema(b) ==
    /\ b.title # NULL
    /\ b.title # UNDEF => Len(b.title) >= 1
    /\ (b.startTime # NoTime /\ b.endTime # NoTime) => b.endTime > b.startTime

\* the row written by prisma.meeting.create
NewMeeting(b, actor) ==
    [title |-> b.title, description |-> OrNull(b.description),
     subject |-> OrNull(b.subject), level |-> OrNull(b.level),
     specialization |-> OrNull(b.specialization),
     startTime |-> b.startTime, endTime |-> b.endTime,
     location |-> OrNull(b.location), onlineUrl |-> OrNull(b.onlineUrl),
     createdById |-> actor, googleEventId |-> NoEvent]

\* PatchData taking a null field for an omitted one
PatchDataSkipNull(m, b) ==
    [m EXCEPT
        !.title = IF Truthy(b.title) THEN b.title ELSE @,
        !.description = IF b.description \notin {UNDEF, NULL} THEN b.description ELSE @,
        !.subject = IF b.subject \notin {UNDEF, NULL} THEN b.subject ELSE @,
        !.level = IF b.level \notin {UNDEF, NULL} THEN b.level ELSE @,
        !.specialization = IF b.specialization \notin {UNDEF, NULL}
                           THEN b.specialization ELSE @,
        !.startTime = IF b.startTime # NoTime THEN b.startTime ELSE @,
        !.endTime = IF b.endTime # NoTime THEN b.endTime ELSE @,
        !.location = IF b.location \notin {UNDEF, NULL} THEN b.location ELSE @,
        !.onlineUrl = IF b.onlineUrl \notin {UNDEF, NULL} THEN b.onlineUrl ELSE @]

\* the data of prisma.meeting.update in PATCH: only the fields present
PatchData(m, b) ==
    [m EXCEPT
        !.title = IF b.title # UNDEF THEN b.title ELSE @,
        !.description = IF b.description # UNDEF THEN b.description ELSE @,
        !.subject = IF b.subject # UNDEF THEN b.subject ELSE @,
        !.level = IF b.level # UNDEF THEN b.level ELSE @,
        !.specialization = IF b.specialization # UNDEF THEN b.specialization ELSE @,
        !.startTime = IF b.startTime # NoTime THEN b.startTime ELSE @,
        !.endTime = IF b.endTime # NoTime THEN b.endTime ELSE @,
        !.location = IF b.location # UNDEF THEN b.location ELSE @,
        !.onlineUrl = IF b.onlineUrl # UNDEF THEN b.onlineUrl ELSE @]

\* MayModify with the ownership test lost: any authenticated actor passes
MayModifyAnyActor(m, actor) == actor \in Actors

\* isOwner || isAdmin
MayModify(m, actor) == m.createdById = actor \/ Role(actor) = "admin"

\* include: { attendees: true, createdBy: true }
Full(mtgs, att, m) ==
    IF m \in DOMAIN mtgs
    THEN [found |-> TRUE, id |-> m, meeting |-> mtgs[m], attendees |-> AttendeesOf(att, m)]
    ELSE [found |-> FALSE]

-----------------------------------------------------------------------------
(* The Google Calendar adapter (src/calendar.ts, src/calendar-fallback.ts) *)

DefaultWindow == 1     \* windowMinutes ?? 60, in clock units of one hour
QueryMaxResults == 5   \* maxResults of events.list

\* a || b || undefined on optional strings
FirstTruthy(a, b) == IF Truthy(a) THEN a ELSE IF Truthy(b) THEN b ELSE NULL

\* the event createCalendarEventForMeeting inserts for meeting m with body b
NewEvent(m, owner, b) ==
    [id |-> m, owner |-> owner, summary |-> b.title,
     description |-> FirstTruthy(b.description, NULL),
     location |-> FirstTruthy(b.onlineUrl, b.location),
     start |-> b.startTime, end |-> b.endTime]

EventsById(cal, owner, eid) == {e \in cal : e.owner = owner /\ e.id = eid}

\* what the provider may answer to events.insert
InsertOutcomes == {"ok", "noid", "throw"}

\* what the provider may answer to events.patch / events.delete of event eid
IdOutcomes(cal, owner, eid) ==
    IF EventsById(cal, owner, eid) # {} THEN {"ok", "error"}
    ELSE {"notfound", "gone", "error"}

\* Throws rethrowing 404 and 410 as well
ThrowsOnMissing(outcome) == outcome # "ok"

\* updateGoogleEvent and deleteGoogleEvent rethrow everything but 404 and 410
Throws(outcome) == outcome \notin {"ok", "notfound", "gone"}

\* the request body updateGoogleEvent builds from the updated row u, applied to event e
PatchedEvent(e, u) ==
    [e EXCEPT
        !.summary = IF Truthy(u.title) THEN u.title ELSE @,
        !.description = IF Truthy(u.description) THEN u.description ELSE @,
        !.location = IF Truthy(u.location) THEN u.location ELSE @,
        !.start = u.startTime,
        !.end = u.endTime]

CalendarUpdate(cal, owner, eid, u, outcome) ==
    IF outcome = "ok"
    THEN {IF e.owner = owner /\ e.id = eid THEN PatchedEvent(e, u) ELSE e : e \in cal}
    ELSE cal

CalendarDeleteById(cal, owner, eid, outcome) ==
    IF outcome = "ok" THEN cal \ EventsById(cal, owner, eid) ELSE cal

\* events.list({ q: summary, timeMin, timeMax }) of deleteGoogleEventByQuery
QueryMatches(cal, owner, title, start, end) ==
    {e \in cal : /\ e.owner = owner
                 /\ ContainsInsensitive(e.summary, title)
                 /\ e.end > start - DefaultWindow
                 /\ e.start < end + DefaultWindow}

\* the pages events.list may return: the first QueryMaxResults matches by start time
QueryPages(matches) ==
    {T \in SUBSET matches :
        /\ Cardinality(T) = IF Cardinality(matches) <= QueryMaxResults
                            THEN Cardinality(matches) ELSE QueryMaxResults
        /\ \A a \in T, b \in matches \ T : a.start <= b.start}

\* CleanupPath searching by title and time window whenever there is a token
CleanupPathQueryOnly(m) ==
    IF ~HasRefreshToken(m.createdById) THEN "none" ELSE "byQuery"

\* which branch deleteGoogleEventWithFallback takes for meeting row m
CleanupPath(m) ==
    IF ~HasRefreshToken(m.createdById) THEN "none"
    ELSE IF m.googleEventId # NoEvent THEN "byId"
    ELSE "byQuery"

\* the requests deleteGoogleEventWithFallback sends for meeting row m:
\* events.delete of the stored event id, or the events.list of the fallback
CleanupCalls(m) ==
    CASE CleanupPath(m) = "none" -> {}
      [] CleanupPath(m) = "byId" ->
            {[kind |-> "byId", eventId |-> m.googleEventId, q |-> <<>>,
              timeMin |-> NoTime, timeMax |-> NoTime]}
      [] CleanupPath(m) = "byQuery" ->
            {[kind |-> "byQuery", eventId |-> NoEvent, q |-> m.title,
              timeMin |-> m.startTime - DefaultWindow,
              timeMax |-> m.endTime + DefaultWindow]}

-----------------------------------------------------------------------------
(* Requests *)

Idle == [op |-> "idle", pc |-> "idle"]

InFlight == {s \in Slots : procs[s].op # "idle"}

\* a request may start in slot s; seq: the client issues its requests one after
\* another (always through slot 1), otherwise any free slot takes a request
CanStart(s, seq) ==
    /\ procs[s].op = "idle"
    /\ seq => (InFlight = {} /\ s = 1)

Respond(p, status, note, out) ==
    [p EXCEPT !.pc = "done"] @@ [status |-> status, note |-> note, out |-> out]

Done(s) == procs[s].pc = "done"

-----------------------------------------------------------------------------
(* POST /:id/join *)

JoinFind(s, seq) ==
    /\ CanStart(s, seq)
    /\ \E actor \in Callers, id \in MeetingIds :
        LET p == [op |-> "Join", pc |-> "check", actor |-> actor, id |-> id] IN
        procs' = [procs EXCEPT ![s] =
            IF ~requireAuth(actor) THEN Respond(p, 401, "Not authenticated", <<>>)
            ELSE IF id \notin DOMAIN meetings
            THEN Respond(p, 404, "Not found", <<>>)
            ELSE p @@ [endTime |-> meetings[id].endTime]]
    /\ UNCHANGED <<clock, meetings, attendees, calendar, nextId, hist>>

\* JoinCheck comparing endTime < now: a meeting ending right now is still joinable
JoinCheckStrict(s) ==
    /\ procs[s].op = "Join" /\ procs[s].pc = "check"
    /\ LET p == procs[s] @@ [now |-> clock] IN
        procs' = [procs EXCEPT ![s] =
            IF p.endTime < p.now
            THEN Respond(p, 400, "Meeting already ended", <<>>)
            ELSE [p EXCEPT !.pc = "insert"]]
    /\ UNCHANGED <<clock, meetings, attendees, calendar, nextId, hist>>

\* JoinCheck without the ended test
JoinCheckNever(s) ==
    /\ procs[s].op = "Join" /\ procs[s].pc = "check"
    /\ procs' = [procs EXCEPT ![s] = [procs[s] @@ [now |-> clock] EXCEPT !.pc = "insert"]]
    /\ UNCHANGED <<clock, meetings, attendees, calendar, nextId, hist>>

JoinCheck(s) ==
    /\ procs[s].op = "Join" /\ procs[s].pc = "check"
    /\ LET p == procs[s] @@ [now |-> clock] IN
        procs' = [procs EXCEPT ![s] =
            IF p.endTime <= p.now
            THEN Respond(p, 400, "Meeting already ended", <<>>)
            ELSE [p EXCEPT !.pc = "insert"]]
    /\ UNCHANGED <<clock, meetings, attendees, calendar, nextId, hist>>

\* JoinInsert answering every failed insert, P2002 included, with 400
JoinInsertNoP2002(s) ==
    /\ procs[s].op = "Join" /\ procs[s].pc = "insert"
    /\ LET p == procs[s]
           res == AttendeeCreateResult(attendees, meetings, p.id, p.actor)
       IN  /\ attendees' = IF res = "ok" THEN AttendeeInsert(attendees, p.id, p.actor)
                           ELSE attendees
           /\ procs' = [procs EXCEPT ![s] =
                IF res = "ok" THEN Respond(p, 200, "joined", AttendeeRow(p.id, p.actor))
                ELSE Respond(p, 400, "Join failed", <<>>)]
    /\ UNCHANGED <<clock, meetings, calendar, nextId, hist>>

JoinInsert(s) ==
    /\ procs[s].op = "Join" /\ procs[s].pc = "insert"
    /\ LET p == procs[s]
           res == AttendeeCreateResult(attendees, meetings, p.id, p.actor)
       IN  /\ attendees' = IF res = "ok" THEN AttendeeInsert(attendees, p.id, p.actor)
                           ELSE attendees
           /\ procs' = [procs EXCEPT ![s] =
                IF res = "ok" THEN Respond(p, 200, "joined", AttendeeRow(p.id, p.actor))
                ELSE IF res = "P2002" THEN Respond(p, 200, "Already joined", <<>>)
                ELSE Respond(p, 400, "Join failed", <<>>)]
    /\ UNCHANGED <<clock, meetings, calendar, nextId, hist>>

-----------------------------------------------------------------------------
(* POST /:id/leave *)

Leave(s, seq) ==
    /\ CanStart(s, seq)
    /\ \E actor \in Callers, id \in MeetingIds :
        LET p == [op |-> "Leave", pc |-> "done", actor |-> actor, id |-> id] IN
        IF ~requireAuth(actor)
        THEN /\ attendees' = attendees
             /\ procs' = [procs EXCEPT ![s] =
                   Respond(p, 401, "Not authenticated", <<>>)]
        ELSE /\ attendees' = AttendeeDeleteMany(attendees, id, actor)
             /\ procs' = [procs EXCEPT ![s] = Respond(p, 200, "ok", <<>>)]
    /\ UNCHANGED <<clock, meetings, calendar, nextId, hist>>

-----------------------------------------------------------------------------
(* GET /:id *)

\* Detail with the endTime filter of the list applied to it
DetailUpcomingOnly(s, seq) ==
    /\ CanStart(s, seq)
    /\ \E id \in MeetingIds :
        LET p == [op |-> "Detail", pc |-> "done", actor |-> "none", id |-> id,
                  now |-> clock]
            item == IF id \in DOMAIN meetings /\ meetings[id].endTime > clock
                    THEN Full(meetings, attendees, id) ELSE [found |-> FALSE]
        IN  procs' = [procs EXCEPT ![s] =
                IF ~item.found THEN Respond(p, 404, "", item)
                ELSE Respond(p, 200, "", item)]
    /\ UNCHANGED <<clock, meetings, attendees, calendar, nextId, hist>>

Detail(s, seq) ==
    /\ CanStart(s, seq)
    /\ \E id \in MeetingIds :
        LET p == [op |-> "Detail", pc |-> "done", actor |-> "none", id |-> id,
                  now |-> clock]
            item == Full(meetings, attendees, id)
        IN  procs' = [procs EXCEPT ![s] =
                IF ~item.found THEN Respond(p, 404, "", item)
                ELSE Respond(p, 200, "", item)]
    /\ UNCHANGED <<clock, meetings, attendees, calendar, nextId, hist>>

-----------------------------------------------------------------------------
(* GET / *)

Query(q, subject, level, specialization, from, to) ==
    [q |-> q, subject |-> subject, level |-> level,
     specialization |-> specialization, from |-> from, to |-> to]

\* the query strings sent to GET /
ListQueries ==
    { Query(UNDEF, UNDEF, UNDEF, UNDEF, NoTime, NoTime),
      Query(<<"m">>, UNDEF, UNDEF, UNDEF, NoTime, NoTime),
      Query(UNDEF, <<"m", "A">>, <<"1">>, UNDEF, NoTime, NoTime),
      Query(UNDEF, UNDEF, UNDEF, UNDEF, 1, 2),
      Query(<<>>, UNDEF, UNDEF, <<"s">>, NoTime, NoTime),
      Query(<<"b">>, UNDEF, UNDEF, UNDEF, NoTime, 1) }

\* ListWhere with endTime: { gte: now } in place of { gt: now }
ListWhereGte(m, f, now) ==
    /\ m.endTime >= now
    /\ Truthy(f.subject) => ContainsInsensitive(m.subject, f.subject)
    /\ Truthy(f.level) => m.level = f.level
    /\ Truthy(f.specialization) => m.specialization = f.specialization
    /\ f.from # NoTime => m.startTime >= f.from
    /\ f.to # NoTime => m.startTime <= f.to
    /\ Truthy(f.q) => \/ ContainsInsensitive(m.title, f.q)
                      \/ ContainsInsensitive(m.description, f.q)
                      \/ ContainsInsensitive(m.subject, f.q)

\* the where clause of findMany, evaluated on row m
ListWhere(m, f, now) ==
    /\ m.endTime > now
    /\ Truthy(f.subject) => ContainsInsensitive(m.subject, f.subject)
    /\ Truthy(f.level) => m.level = f.level
    /\ Truthy(f.specialization) => m.specialization = f.specialization
    /\ f.from # NoTime => m.startTime >= f.from
    /\ f.to # NoTime => m.startTime <= f.to
    /\ Truthy(f.q) => \/ ContainsInsensitive(m.title, f.q)
                      \/ ContainsInsensitive(m.description, f.q)
                      \/ ContainsInsensitive(m.subject, f.q)

\* orderBy: { startTime: 'asc' }: the orders in which the rows ids may come back
OrderedByStart(mtgs, ids) ==
    {o \in [1..Cardinality(ids) -> ids] :
        /\ \A i, j \in DOMAIN o : i # j => o[i] # o[j]
        /\ \A i, j \in DOMAIN o : i < j => mtgs[o[i]].startTime <= mtgs[o[j]].startTime}

List(s, seq) ==
    /\ CanStart(s, seq)
    /\ \E f \in ListQueries :
        LET now == clock
            ids == {m \in DOMAIN meetings : ListWhere(meetings[m], f, now)}
        IN  \E o \in OrderedByStart(meetings, ids) :
              procs' = [procs EXCEPT ![s] =
                Respond([op |-> "List", pc |-> "done", actor |-> "none", id |-> 0,
                         query |-> f, now |-> now],
                        200, "", [i \in DOMAIN o |-> Full(meetings, attendees, o[i])])]
    /\ UNCHANGED <<clock, meetings, attendees, calendar, nextId, hist>>

-----------------------------------------------------------------------------
(* POST / *)

\* validate(CreateMeetingSchema), then prisma.meeting.create
CreateInsert(s, seq) ==
    /\ CanStart(s, seq)
    /\ nextId <= MaxMeetings
    /\ \E actor \in Callers, b \in CreateBodies :
        LET p == [op |-> "Create", pc |-> "enroll", actor |-> actor, id |-> nextId,
                  body |-> b, cal |-> "none"]
        IN  IF ~requireAuth(actor)
            THEN /\ procs' = [procs EXCEPT ![s] =
                        Respond(p, 401, "Not authenticated", <<>>)]
                 /\ UNCHANGED <<meetings, nextId>>
            ELSE IF ~CreateMeetingSchema(b)
            THEN /\ procs' = [procs EXCEPT ![s] =
                        Respond(p, 400, "Validation failed", <<>>)]
                 /\ UNCHANGED <<meetings, nextId>>
            ELSE IF actor \notin Users
            THEN \* Meeting_createdById_fkey: the rejection is not caught by the handler
                 /\ procs' = [procs EXCEPT ![s] = Respond(p, 500, "unhandled", <<>>)]
                 /\ UNCHANGED <<meetings, nextId>>
            ELSE /\ meetings' = (nextId :> NewMeeting(b, actor)) @@ meetings
                 /\ nextId' = nextId + 1
                 /\ procs' = [procs EXCEPT ![s] = p]
    /\ UNCHANGED <<clock, attendees, calendar, hist>>

\* CreateEnroll enrolling the creator only when a calendar event can follow
CreateEnrollIfToken(s) ==
    /\ procs[s].op = "Create" /\ procs[s].pc = "enroll"
    /\ LET p == procs[s] IN
        /\ attendees' = IF HasRefreshToken(p.actor)
                        THEN AttendeeInsert(attendees, p.id, p.actor) ELSE attendees
        /\ procs' = [procs EXCEPT ![s].pc = "calendar"]
    /\ UNCHANGED <<clock, meetings, calendar, nextId, hist>>

\* add creator as attendee
CreateEnroll(s) ==
    /\ procs[s].op = "Create" /\ procs[s].pc = "enroll"
    /\ LET p == procs[s]
           res == AttendeeCreateResult(attendees, meetings, p.id, p.actor)
       IN  IF res = "ok"
           THEN /\ attendees' = AttendeeInsert(attendees, p.id, p.actor)
                /\ procs' = [procs EXCEPT ![s].pc = "calendar"]
           ELSE /\ attendees' = attendees
                /\ procs' = [procs EXCEPT ![s] = Respond(p, 500, "unhandled", <<>>)]
    /\ UNCHANGED <<clock, meetings, calendar, nextId, hist>>

\* createCalendarEventForMeeting, inside the handler's try
CreateCalendar(s) ==
    /\ procs[s].op = "Create" /\ procs[s].pc = "calendar"
    /\ LET p == procs[s] IN
        IF ~HasRefreshToken(p.actor)
        THEN /\ calendar' = calendar
             /\ procs' = [procs EXCEPT ![s].pc = "fetch", ![s].cal = "notoken"]
        ELSE \E outcome \in InsertOutcomes :
             /\ calendar' = IF outcome = "ok"
                            THEN calendar \cup {NewEvent(p.id, p.actor, p.body)}
                            ELSE calendar
             /\ procs' = [procs EXCEPT
                    ![s].pc = IF outcome = "ok" THEN "setEventId" ELSE "fetch",
                    ![s].cal = outcome]
    /\ UNCHANGED <<clock, meetings, attendees, nextId, hist>>

\* CreateSetEventId not writing the event id
CreateSetEventIdSkip(s) ==
    /\ procs[s].op = "Create" /\ procs[s].pc = "setEventId"
    /\ procs' = [procs EXCEPT ![s].pc = "fetch"]
    /\ UNCHANGED <<clock, meetings, attendees, calendar, nextId, hist>>

\* prisma.meeting.update({ data: { googleEventId: geid } }); P2025 is caught and logged
CreateSetEventId(s) ==
    /\ procs[s].op = "Create" /\ procs[s].pc = "setEventId"
    /\ LET p == procs[s] IN
        /\ meetings' = IF p.id \in DOMAIN meetings
                       THEN [meetings EXCEPT ![p.id].googleEventId = p.id]
                       ELSE meetings
        /\ procs' = [procs EXCEPT ![s].pc = "fetch"]
    /\ UNCHANGED <<clock, attendees, calendar, nextId, hist>>

\* findUnique of the new meeting and res.status(201).json(full)
CreateFetch(s) ==
    /\ procs[s].op = "Create" /\ procs[s].pc = "fetch"
    /\ procs' = [procs EXCEPT ![s] =
          Respond(procs[s], 201, "", Full(meetings, attendees, procs[s].id))]
    /\ UNCHANGED <<clock, meetings, attendees, calendar, nextId, hist>>

-----------------------------------------------------------------------------
(* PATCH /:id *)

\* validate(PatchMeetingSchema), findUnique, the 404 and 403 returns
PatchFind(s, seq) ==
    /\ CanStart(s, seq)
    /\ \E actor \in Callers, id \in MeetingIds, b \in PatchBodies :
        LET p == [op |-> "Patch", pc |-> "update", actor |-> actor, id |-> id,
                  body |-> b, cal |-> "none", synced |-> FALSE]
        IN  procs' = [procs EXCEPT ![s] =
                IF ~requireAuth(actor) THEN Respond(p, 401, "Not authenticated", <<>>)
                ELSE IF ~PatchMeetingSchema(b) THEN Respond(p, 400, "Validation failed", <<>>)
                ELSE IF id \notin DOMAIN meetings THEN Respond(p, 404, "Not found", <<>>)
                ELSE IF ~MayModify(meetings[id], actor)
                     THEN Respond(p, 403, "Forbidden", <<>>)
                ELSE p @@ [meeting |-> meetings[id]]]
    /\ UNCHANGED <<clock, meetings, attendees, calendar, nextId, hist>>

\* PatchUpdate handing over to the calendar step without having written the row
PatchUpdateNoCommit(s) ==
    /\ procs[s].op = "Patch" /\ procs[s].pc = "update"
    /\ LET p == procs[s] IN
        IF p.id \notin DOMAIN meetings
        THEN /\ meetings' = meetings
             /\ procs' = [procs EXCEPT ![s] = Respond(p, 500, "unhandled", <<>>)]
        ELSE LET updated == PatchData(meetings[p.id], p.body)
                 q == p @@ [updated |-> updated]
                 sync == /\ p.meeting.googleEventId # NoEvent
                         /\ HasRefreshToken(p.meeting.createdById)
             IN  /\ meetings' = IF sync THEN meetings
                                ELSE [meetings EXCEPT ![p.id] = updated]
                 /\ procs' = [procs EXCEPT ![s] =
                      IF sync THEN [q EXCEPT !.pc = "calendar"]
                      ELSE Respond(q, 200, "", Full(meetings', attendees, p.id))]
    /\ UNCHANGED <<clock, attendees, calendar, nextId, hist>>

\* prisma.meeting.update; without event id or refresh token the response follows
PatchUpdate(s) ==
    /\ procs[s].op = "Patch" /\ procs[s].pc = "update"
    /\ LET p == procs[s] IN
        IF p.id \notin DOMAIN meetings
        THEN \* P2025, not caught by the handler
             /\ meetings' = meetings
             /\ procs' = [procs EXCEPT ![s] = Respond(p, 500, "unhandled", <<>>)]
        ELSE LET updated == PatchData(meetings[p.id], p.body)
                 q == p @@ [updated |-> updated]
             IN  /\ meetings' = [meetings EXCEPT ![p.id] = updated]
                 /\ procs' = [procs EXCEPT ![s] =
                      IF /\ p.meeting.googleEventId # NoEvent
                         /\ HasRefreshToken(p.meeting.createdById)
                      THEN [q EXCEPT !.pc = "calendar"]
                      ELSE Respond(q, 200, "",
                                   Full(meetings', attendees, p.id))]
    /\ UNCHANGED <<clock, attendees, calendar, nextId, hist>>

\* PatchCalendar answering 500 when updateGoogleEvent throws
PatchCalendarPropagates(s) ==
    /\ procs[s].op = "Patch" /\ procs[s].pc = "calendar"
    /\ LET p == procs[s]
           owner == p.meeting.createdById
           eid == p.meeting.googleEventId
       IN  \E outcome \in IdOutcomes(calendar, owner, eid) :
            /\ calendar' = CalendarUpdate(calendar, owner, eid, p.updated, outcome)
            /\ procs' = [procs EXCEPT ![s] =
                 IF Throws(outcome)
                 THEN Respond([p EXCEPT !.cal = outcome, !.synced = TRUE], 500,
                              "unhandled", <<>>)
                 ELSE Respond([p EXCEPT !.cal = outcome, !.synced = TRUE], 200, "",
                         [found |-> TRUE, id |-> p.id, meeting |-> p.updated,
                          attendees |-> AttendeesOf(attendees, p.id)])]
    /\ UNCHANGED <<clock, meetings, attendees, nextId, hist>>

\* updateGoogleEvent inside try/catch, then res.json(updated)
PatchCalendar(s) ==
    /\ procs[s].op = "Patch" /\ procs[s].pc = "calendar"
    /\ LET p == procs[s]
           owner == p.meeting.createdById
           eid == p.meeting.googleEventId
       IN  \E outcome \in IdOutcomes(calendar, owner, eid) :
            /\ calendar' = CalendarUpdate(calendar, owner, eid, p.updated, outcome)
            /\ procs' = [procs EXCEPT ![s] =
                 Respond([p EXCEPT !.cal = outcome, !.synced = TRUE], 200, "",
                         [found |-> TRUE, id |-> p.id, meeting |-> p.updated,
                          attendees |-> AttendeesOf(attendees, p.id)])]
    /\ UNCHANGED <<clock, meetings, attendees, nextId, hist>>

-----------------------------------------------------------------------------
(* DELETE /:id *)

\* DeleteFind without the creator-or-admin test
DeleteFindNoOwnerCheck(s, seq) ==
    /\ CanStart(s, seq)
    /\ \E actor \in Callers, id \in MeetingIds :
        LET p == [op |-> "Delete", pc |-> "cleanup", actor |-> actor, id |-> id,
                  cal |-> "none", path |-> "none", calls |-> {}]
        IN  procs' = [procs EXCEPT ![s] =
                IF ~requireAuth(actor) THEN Respond(p, 401, "Not authenticated", <<>>)
                ELSE IF id \notin DOMAIN meetings THEN Respond(p, 404, "Not found", <<>>)
                ELSE p @@ [meeting |-> meetings[id]]]
    /\ UNCHANGED <<clock, meetings, attendees, calendar, nextId, hist>>

\* findUnique with the creator, the 404 and 403 returns
DeleteFind(s, seq) ==
    /\ CanStart(s, seq)
    /\ \E actor \in Callers, id \in MeetingIds :
        LET p == [op |-> "Delete", pc |-> "cleanup", actor |-> actor, id |-> id,
                  cal |-> "none", path |-> "none", calls |-> {}]
        IN  procs' = [procs EXCEPT ![s] =
                IF ~requireAuth(actor) THEN Respond(p, 401, "Not authenticated", <<>>)
                ELSE IF id \notin DOMAIN meetings THEN Respond(p, 404, "Not found", <<>>)
                ELSE IF ~MayModify(meetings[id], actor)
                     THEN Respond(p, 403, "Forbidden", <<>>)
                ELSE p @@ [meeting |-> meetings[id]]]
    /\ UNCHANGED <<clock, meetings, attendees, calendar, nextId, hist>>

\* DeleteCleanup letting a calendar error end the request before the transaction
DeleteCleanupPropagates(s) ==
    /\ procs[s].op = "Delete" /\ procs[s].pc = "cleanup"
    /\ LET p == procs[s]
           m == p.meeting
           owner == m.createdById
           path == CleanupPath(m)
       IN  CASE path = "none" ->
                  /\ calendar' = calendar
                  /\ procs' = [procs EXCEPT ![s].pc = "txn"]
             [] path = "byId" ->
                  \E outcome \in IdOutcomes(calendar, owner, m.googleEventId) :
                    /\ calendar' = CalendarDeleteById(calendar, owner,
                                                      m.googleEventId, outcome)
                    /\ procs' = [procs EXCEPT ![s] =
                         IF Throws(outcome)
                         THEN Respond([p EXCEPT !.cal = outcome, !.path = path,
                                                 !.calls = CleanupCalls(m)],
                                      500, "unhandled", <<>>)
                         ELSE [p EXCEPT !.pc = "txn", !.cal = outcome, !.path = path,
                                        !.calls = CleanupCalls(m)]]
             [] path = "byQuery" ->
                  \E page \in QueryPages(QueryMatches(calendar, owner, m.title,
                                                      m.startTime, m.endTime)),
                     outcome \in {"ok", "error"} :
                    \E deleted \in SUBSET page :
                      /\ outcome = "ok" => deleted = page
                      /\ calendar' = calendar \ deleted
                      /\ procs' = [procs EXCEPT ![s] =
                           IF Throws(outcome)
                           THEN Respond([p EXCEPT !.cal = outcome, !.path = path,
                                                   !.calls = CleanupCalls(m)],
                                        500, "unhandled", <<>>)
                           ELSE [p EXCEPT !.pc = "txn", !.cal = outcome, !.path = path,
                                          !.calls = CleanupCalls(m)]]
    /\ UNCHANGED <<clock, meetings, attendees, nextId, hist>>

\* deleteGoogleEventWithFallback: it and the handler swallow every calendar error
DeleteCleanup(s) ==
    /\ procs[s].op = "Delete" /\ procs[s].pc = "cleanup"
    /\ LET p == procs[s]
           m == p.meeting
           owner == m.createdById
           path == CleanupPath(m)
       IN  CASE path = "none" ->
                  /\ calendar' = calendar
                  /\ procs' = [procs EXCEPT ![s].pc = "txn"]
             [] path = "byId" ->
                  \E outcome \in IdOutcomes(calendar, owner, m.googleEventId) :
                    /\ calendar' = CalendarDeleteById(calendar, owner,
                                                      m.googleEventId, outcome)
                    /\ procs' = [procs EXCEPT ![s].pc = "txn", ![s].cal = outcome,
                                              ![s].path = path,
                                              ![s].calls = CleanupCalls(m)]
             [] path = "byQuery" ->
                  \E page \in QueryPages(QueryMatches(calendar, owner, m.title,
                                                      m.startTime, m.endTime)),
                     outcome \in {"ok", "error"} :
                    \E deleted \in SUBSET page :
                      /\ outcome = "ok" => deleted = page
                      /\ calendar' = calendar \ deleted
                      /\ procs' = [procs EXCEPT ![s].pc = "txn", ![s].cal = outcome,
                                                ![s].path = path,
                                                ![s].calls = CleanupCalls(m)]
    /\ UNCHANGED <<clock, meetings, attendees, nextId, hist>>

\* prisma.$transaction([meetingAttendee.deleteMany, meeting.delete])
DeleteTxn(s) ==
    /\ procs[s].op = "Delete" /\ procs[s].pc = "txn"
    /\ LET p == procs[s] IN
        IF p.id \notin DOMAIN meetings
        THEN \* meeting.delete fails with P2025: the transaction rolls back
             /\ UNCHANGED <<meetings, attendees>>
             /\ procs' = [procs EXCEPT ![s] = Respond(p, 500, "unhandled", <<>>)]
        ELSE /\ attendees' = AttendeeDeleteOfMeeting(attendees, p.id)
             /\ meetings' = MeetingDelete(meetings, p.id)
             /\ procs' = [procs EXCEPT ![s] = Respond(p, 200, "ok", <<>>)]
    /\ UNCHANGED <<clock, calendar, nextId, hist>>

-----------------------------------------------------------------------------
(* GET /api/recommendations: getRecommendations and its helpers *)

\* take: 20, the most rows the upcoming query returns
CandidateCap == 20

\* slice(0, 5)
TopN == 5

\* score of a popularity entry
PopularScore == 50

Min(a, b) == IF a <= b THEN a ELSE b

Take(a, n) == SubSeq(a, 1, Min(n, Len(a)))

\* orderBy: { startTime: 'asc' } over the rows ids: every order the query may
\* return, rows of equal startTime coming in any order
RECURSIVE StartOrders(_, _)
StartOrders(mtgs, ids) ==
    IF ids = {} THEN {<<>>}
    ELSE LET firsts == {m \in ids :
                           \A k \in ids : mtgs[m].startTime <= mtgs[k].startTime}
         IN  UNION {{<<m>> \o o : o \in StartOrders(mtgs, ids \ {m})} : m \in firsts}

\* getUserProfile: null for an unknown user, else the number of attendance rows
getUserProfile(att, u) ==
    IF u \notin Users THEN [found |-> FALSE, totalMeetingsJoined |-> 0]
    ELSE LET rows == {r \in DOMAIN att : r.userId = u}
         IN  [found |-> TRUE,
              totalMeetingsJoined |->
                  IF rows = {} THEN 0 ELSE BagCardinality([r \in rows |-> att[r]])]

\* the entry getAvailableMeetings makes of the row m
AvailableRow(mtgs, att, m) ==
    [id |-> m, title |-> mtgs[m].title, description |-> mtgs[m].description,
     subject |-> mtgs[m].subject, level |-> mtgs[m].level,
     specialization |-> mtgs[m].specialization, startTime |-> mtgs[m].startTime,
     attendeesCount |-> BagCardinality(AttendeesOf(att, m))]

\* getAvailableMeetings after its reads: rows is the capped upcoming query's
\* result, from which the joined meetings are then filtered out
AvailableOf(mtgs, att, rows, joinedIds) ==
    LET kept == SelectSeq(rows, LAMBDA m : m \notin joinedIds)
    IN  [i \in DOMAIN kept |-> AvailableRow(mtgs, att, kept[i])]

\* SortByPopularity leaving the order as it is
SortByPopularityNone(a) == a

\* sort((a, b) => b.attendeesCount - a.attendeesCount): stable, descending
RECURSIVE SortByPopularity(_)
SortByPopularity(a) ==
    IF a = <<>> THEN <<>>
    ELSE LET i == CHOOSE k \in DOMAIN a :
                    /\ \A j \in DOMAIN a : a[j].attendeesCount <= a[k].attendeesCount
                    /\ \A j \in 1..(k - 1) : a[j].attendeesCount < a[k].attendeesCount
         IN  <<a[i]>> \o SortByPopularity(SubSeq(a, 1, i - 1) \o
                                           SubSeq(a, i + 1, Len(a)))

\* the popularity list: sort, slice(0, 5), map to score 50 and the given reason
Popular(available, reason) ==
    LET top == Take(SortByPopularity(available), TopN)
    IN  [i \in DOMAIN top |->
            [meeting |-> top[i], score |-> PopularScore, reason |-> reason]]

\* the entry of available with id m; undefined in the code when there is none
MeetingMapGet(available, m) ==
    IF \E i \in DOMAIN available : available[i].id = m
    THEN available[CHOOSE i \in DOMAIN available : available[i].id = m]
    ELSE [id |-> m, title |-> UNDEF, description |-> UNDEF, subject |-> UNDEF,
          level |-> UNDEF, specialization |-> UNDEF, startTime |-> NoTime,
          attendeesCount |-> 0]

\* MapRankings keeping the entries whose id is not among the available meetings
MapRankingsNoFilter(rankings, available) ==
    [i \in DOMAIN rankings |->
        [meeting |-> MeetingMapGet(available, rankings[i].id),
         score |-> rankings[i].score, reason |-> rankings[i].reason]]

\* rankings.filter(r => meetingMap.has(r.id)).map(...)
MapRankings(rankings, available) ==
    LET ids == {available[i].id : i \in DOMAIN available}
        kept == SelectSeq(rankings, LAMBDA r : r.id \in ids)
    IN  [i \in DOMAIN kept |->
            [meeting |-> MeetingMapGet(available, kept[i].id),
             score |-> kept[i].score, reason |-> kept[i].reason]]

\* an entry of the array the model is asked for
Ranking(id) == [id |-> id, score |-> 85, reason |-> "match"]

\* ids a ranking may name: stored meetings and 0, which no meeting has
RankedIds == {0, 1, 2}

\* the arrays generateContent's text may hold
AiRankings ==
    {<<>>} \cup {<<Ranking(a)>> : a \in RankedIds}
           \cup {<<Ranking(a), Ranking(b)>> : a, b \in RankedIds}

\* what model.generateContent and the parsing of its text may come to: a
\* rejection, a text without a bracketed part, a bracketed part JSON.parse
\* rejects, or an array of entries
AiResponses ==
    {[kind |-> k, rankings |-> <<>>] : k \in {"throw", "noarray", "badjson"}}
        \cup {[kind |-> "rankings", rankings |-> r] : r \in AiRankings}

\* the route's 401, the GEMINI_API_KEY test, getUserProfile
RecommendProfile(s, seq) ==
    /\ CanStart(s, seq)
    /\ \E actor \in Callers, key \in BOOLEAN :
        LET p == [op |-> "Recommend", pc |-> "joined", actor |-> actor, id |-> 0,
                  key |-> key, ai |-> "none", rankings |-> <<>>]
            profile == getUserProfile(attendees, actor)
        IN  procs' = [procs EXCEPT ![s] =
                \* req.user comes from the session alone: the admin token is
                \* read by the meetings router only
                IF actor \notin Users THEN Respond(p, 401, "Not authenticated", <<>>)
                ELSE IF ~key THEN Respond(p, 200, "", <<>>)
                ELSE IF ~profile.found THEN Respond(p, 200, "", <<>>)
                ELSE p @@ [total |-> profile.totalMeetingsJoined]]
    /\ UNCHANGED <<clock, meetings, attendees, calendar, nextId, hist>>

\* getAvailableMeetings: now, and the ids of the meetings the user joined
RecommendJoined(s) ==
    /\ procs[s].op = "Recommend" /\ procs[s].pc = "joined"
    /\ LET p == procs[s]
           joinedIds == {r.meetingId : r \in {x \in DOMAIN attendees :
                                                  x.userId = p.actor}}
       IN  procs' = [procs EXCEPT ![s] =
               [p EXCEPT !.pc = "upcoming"] @@ [now |-> clock, joinedIds |-> joinedIds]]
    /\ UNCHANGED <<clock, meetings, attendees, calendar, nextId, hist>>

\* the upcoming query, the filter, the empty return and the no-history return
RecommendUpcoming(s) ==
    /\ procs[s].op = "Recommend" /\ procs[s].pc = "upcoming"
    /\ LET p == procs[s]
           ids == {m \in DOMAIN meetings : meetings[m].endTime > p.now}
       IN  \E o \in StartOrders(meetings, ids) :
             LET available == AvailableOf(meetings, attendees,
                                          Take(o, CandidateCap), p.joinedIds)
                 q == p @@ [available |-> available]
             IN  procs' = [procs EXCEPT ![s] =
                     IF Len(available) = 0 THEN Respond(q, 200, "", <<>>)
                     ELSE IF p.total = 0
                     THEN Respond(q, 200, "",
                                  Popular(available, "Popular session you might like"))
                     ELSE [q EXCEPT !.pc = "rank"]]
    /\ UNCHANGED <<clock, meetings, attendees, calendar, nextId, hist>>

\* generateContent, the match, JSON.parse, the mapping, and the catch
RecommendRank(s) ==
    /\ procs[s].op = "Recommend" /\ procs[s].pc = "rank"
    /\ LET p == procs[s] IN
        \E resp \in AiResponses :
          LET q == [p EXCEPT !.ai = resp.kind, !.rankings = resp.rankings]
          IN  procs' = [procs EXCEPT ![s] =
                  CASE resp.kind = "noarray" -> Respond(q, 200, "", <<>>)
                    [] resp.kind = "rankings" ->
                         Respond(q, 200, "", MapRankings(resp.rankings, p.available))
                    [] OTHER ->
                         Respond(q, 200, "", Popular(p.available, "Popular session"))]
    /\ UNCHANGED <<clock, meetings, attendees, calendar, nextId, hist>>

-----------------------------------------------------------------------------
(* Calls of the calendar adapter's functions, as their callers see them: the *)
(* promise of a call resolves or rejects.                                   *)

\* the promise of an adapter call whose provider request had the given outcome
Settled(outcome) == IF Throws(outcome) THEN "rejected" ELSE "resolved"

\* rows a caller may pass to the adapter
AdapterRows == {NewMeeting(b, "u1") : b \in {c \in CreateBodies : CreateMeetingSchema(c)}}

\* updateGoogleEvent(refreshToken, eventId, fields)
AdapterUpdate(s) ==
    /\ CanStart(s, FALSE)
    /\ \E eid \in 1..(MaxMeetings + 1), u \in AdapterRows :
        \E outcome \in IdOutcomes(calendar, "u1", eid) :
          /\ calendar' = CalendarUpdate(calendar, "u1", eid, u, outcome)
          /\ procs' = [procs EXCEPT ![s] =
                [op |-> "updateGoogleEvent", pc |-> "done", actor |-> "u1",
                 id |-> eid, cal |-> outcome, result |-> Settled(outcome),
                 items |-> {}]]
    /\ UNCHANGED <<clock, meetings, attendees, nextId, hist>>

\* deleteGoogleEvent(refreshToken, eventId)
AdapterDelete(s) ==
    /\ CanStart(s, FALSE)
    /\ \E eid \in 1..(MaxMeetings + 1) :
        \E outcome \in IdOutcomes(calendar, "u1", eid) :
          /\ calendar' = CalendarDeleteById(calendar, "u1", eid, outcome)
          /\ procs' = [procs EXCEPT ![s] =
                [op |-> "deleteGoogleEvent", pc |-> "done", actor |-> "u1",
                 id |-> eid, cal |-> outcome, result |-> Settled(outcome),
                 items |-> {}]]
    /\ UNCHANGED <<clock, meetings, attendees, nextId, hist>>

\* deleteGoogleEventByQuery: events.list, whose error is not caught
AdapterList(s) ==
    /\ CanStart(s, FALSE)
    /\ \E m \in AdapterRows, outcome \in {"ok", "error"} :
        LET p == [op |-> "deleteGoogleEventByQuery", pc |-> "each", actor |-> "u1",
                  id |-> 0, cal |-> outcome, result |-> "pending", items |-> {}]
        IN  IF outcome = "error"
            THEN procs' = [procs EXCEPT ![s] =
                    [p EXCEPT !.pc = "done", !.result = "rejected"]]
            ELSE \E page \in QueryPages(QueryMatches(calendar, "u1", m.title,
                                                     m.startTime, m.endTime)) :
                    procs' = [procs EXCEPT ![s] = [p EXCEPT !.items = page]]
    /\ UNCHANGED <<clock, meetings, attendees, calendar, nextId, hist>>

\* one turn of the loop over data.items: events.delete of the next listed event
AdapterEach(s) ==
    /\ procs[s].op = "deleteGoogleEventByQuery" /\ procs[s].pc = "each"
    /\ LET p == procs[s] IN
        IF p.items = {}
        THEN /\ calendar' = calendar
             /\ procs' = [procs EXCEPT ![s] =
                    [p EXCEPT !.pc = "done", !.result = "resolved"]]
        ELSE \E e \in {x \in p.items : \A y \in p.items : x.start <= y.start} :
               \E outcome \in IdOutcomes(calendar, "u1", e.id) :
                 /\ calendar' = CalendarDeleteById(calendar, "u1", e.id, outcome)
                 /\ procs' = [procs EXCEPT ![s] =
                      IF Throws(outcome)
                      THEN [p EXCEPT !.pc = "done", !.id = e.id, !.cal = outcome,
                                     !.result = "rejected"]
                      ELSE [p EXCEPT !.id = e.id, !.cal = outcome,
                                     !.items = p.items \ {e}]]
    /\ UNCHANGED <<clock, meetings, attendees, nextId, hist>>

-----------------------------------------------------------------------------
(* The clock and the end of a request *)

Tick ==
    /\ clock < MaxTime
    /\ clock' = clock + 1
    /\ UNCHANGED <<meetings, attendees, calendar, nextId, procs, hist>>

\* what hist keeps of a finished request
Summary(p) ==
    IF p.op \in {"Join", "Leave"}
    THEN [op |-> p.op, actor |-> p.actor, id |-> p.id, status |-> p.status,
          note |-> p.note]
    ELSE [op |-> "other", actor |-> "none", id |-> 0, status |-> 0, note |-> ""]

Reap(s, rec) ==
    /\ Done(s)
    /\ procs' = [procs EXCEPT ![s] = Idle]
    /\ hist' = IF rec THEN Summary(procs[s]) ELSE hist
    /\ UNCHANGED <<clock, meetings, attendees, calendar, nextId>>

-----------------------------------------------------------------------------

Init ==
    /\ clock = 0
    /\ meetings = <<>>
    /\ attendees = EmptyBag
    /\ calendar = {}
    /\ nextId = 1
    /\ procs = [s \in Slots |-> Idle]
    /\ hist = Summary(Idle)

\* Requests issued one after another: every handler runs to its response
\* before the next request arrives.
Next ==
    \/ Tick
    \/ \E s \in Slots :
        \/ List(s, TRUE) \/ Detail(s, TRUE)
        \/ CreateInsert(s, TRUE) \/ CreateEnroll(s) \/ CreateCalendar(s)
        \/ CreateSetEventId(s) \/ CreateFetch(s)
        \/ PatchFind(s, TRUE) \/ PatchUpdate(s) \/ PatchCalendar(s)
        \/ JoinFind(s, TRUE) \/ JoinCheck(s) \/ JoinInsert(s)
        \/ Leave(s, TRUE)
        \/ DeleteFind(s, TRUE) \/ DeleteCleanup(s) \/ DeleteTxn(s)
        \/ Reap(s, FALSE)

Spec == Init /\ [][Next]_vars

\* Membership requests issued one after another, hist keeping the previous one.
MemberNext ==
    \/ Tick
    \/ \E s \in Slots :
        \/ CreateInsert(s, TRUE) \/ CreateEnroll(s) \/ CreateCalendar(s)
        \/ CreateSetEventId(s) \/ CreateFetch(s)
        \/ JoinFind(s, TRUE) \/ JoinCheck(s) \/ JoinInsert(s)
        \/ Leave(s, TRUE)
        \/ Reap(s, TRUE)

MemberSpec == Init /\ [][MemberNext]_vars

\* Concurrent Join requests, one per slot, interleaved at their awaits, on a
\* store that holds one meeting as Create leaves it when no event id was stored.
RaceInit ==
    /\ clock = 0
    /\ \E creator \in Users, b \in {c \in CreateBodies : CreateMeetingSchema(c)} :
        /\ meetings = (1 :> NewMeeting(b, creator))
        /\ attendees = AttendeeInsert(EmptyBag, 1, creator)
    /\ calendar = {}
    /\ nextId = 2
    /\ procs = [s \in Slots |-> Idle]
    /\ hist = Summary(Idle)

RaceNext ==
    \/ Tick
    \/ \E s \in Slots : JoinFind(s, FALSE) \/ JoinCheck(s) \/ JoinInsert(s)

RaceSpec == RaceInit /\ [][RaceNext]_vars

\* the store after one finished Create: meeting 1 with its creator enrolled, and,
\* when the creator has a refresh token and events.insert returned an id, the
\* event in the calendar and its id in the row
EndedInit ==
    /\ clock = 0
    /\ \E creator \in Users, b \in {c \in CreateBodies : CreateMeetingSchema(c)},
          synced \in BOOLEAN :
        /\ synced => HasRefreshToken(creator)
        /\ meetings = (1 :> [NewMeeting(b, creator) EXCEPT
                                !.googleEventId = IF synced THEN 1 ELSE NoEvent])
        /\ attendees = AttendeeInsert(EmptyBag, 1, creator)
        /\ calendar = IF synced THEN {NewEvent(1, creator, b)} ELSE {}
    /\ nextId = 2
    /\ procs = [s \in Slots |-> Idle]
    /\ hist = Summary(Idle)

\* Join requests in flight together with Patch requests and the passing of time,
\* interleaved at their awaits, on a store that holds one meeting.
EndedNext ==
    \/ Tick
    \/ \E s \in Slots : JoinFind(s, FALSE) \/ JoinCheck(s) \/ JoinInsert(s)
    \/ \E s \in Slots : PatchFind(s, FALSE) \/ PatchUpdate(s) \/ PatchCalendar(s)

EndedSpec == EndedInit /\ [][EndedNext]_vars

\* Create, Join, Leave and Delete requests in flight together, one per slot,
\* interleaved at their awaits.
CascadeNext ==
    \/ Tick
    \/ \E s \in Slots :
        \/ CreateInsert(s, FALSE) \/ CreateEnroll(s) \/ CreateCalendar(s)
        \/ CreateSetEventId(s) \/ CreateFetch(s)
        \/ JoinFind(s, FALSE) \/ JoinCheck(s) \/ JoinInsert(s)
        \/ Leave(s, FALSE)
        \/ DeleteFind(s, FALSE) \/ DeleteCleanup(s) \/ DeleteTxn(s)
        \/ Reap(s, FALSE)

CascadeSpec == Init /\ [][CascadeNext]_vars

\* the most meetings in the store when recommendations are asked for
RecMeetings == 6

\* who attends a stored meeting when recommendations are asked for
RecGoing == {{}, {"u2"}, {"u1", "u2"}}

\* Recommendation requests, one at a time, on a store as Create, Join and Leave
\* leave it: u2's meetings i with times (i, i + 1), each attended by nobody, by
\* u2, or by both users, asked at any clock value.
RecInit ==
    /\ clock \in 0..MaxTime
    /\ \E n \in 0..RecMeetings :
        \E going \in [1..n -> RecGoing] :
          /\ meetings = [i \in 1..n |->
                NewMeeting(Body(<<"b">>, UNDEF, UNDEF, UNDEF, UNDEF, i, i + 1,
                                UNDEF, UNDEF), "u2")]
          /\ attendees = SetToBag(UNION {{AttendeeRow(i, u) : u \in going[i]} :
                                              i \in 1..n})
          /\ nextId = n + 1
    /\ calendar = {}
    /\ procs = [s \in Slots |-> Idle]
    /\ hist = Summary(Idle)

RecNext ==
    \E s \in Slots :
        \/ RecommendProfile(s, TRUE) \/ RecommendJoined(s)
        \/ RecommendUpcoming(s) \/ RecommendRank(s)
        \/ Reap(s, FALSE)

RecSpec == RecInit /\ [][RecNext]_vars

\* the most meetings in the store when the cap of the upcoming query is at stake
CapMeetings == 21

\* Recommendation requests, one at a time, on a store of CandidateCap meetings or
\* more, all upcoming: u2's meetings i with times (i, i + 1), each attended by
\* its creator, one of them or none attended by u1 as well.
CapInit ==
    /\ clock = 0
    /\ \E n \in CandidateCap..CapMeetings, j \in 0..CapMeetings :
          /\ j <= n
          /\ meetings = [i \in 1..n |->
                NewMeeting(Body(<<"b">>, UNDEF, UNDEF, UNDEF, UNDEF, i, i + 1,
                                UNDEF, UNDEF), "u2")]
          /\ attendees = SetToBag({AttendeeRow(i, "u2") : i \in 1..n}
                                      \cup {AttendeeRow(i, "u1") : i \in {j} \ {0}})
          /\ nextId = n + 1
    /\ calendar = {}
    /\ procs = [s \in Slots |-> Idle]
    /\ hist = Summary(Idle)

CapSpec == CapInit /\ [][RecNext]_vars

\* Calls of updateGoogleEvent, deleteGoogleEvent and deleteGoogleEventByQuery in
\* flight together on u1's calendar, which holds at most one event per id, each
\* as createCalendarEventForMeeting inserts it.
AdapterInit ==
    /\ clock = 0
    /\ meetings = <<>>
    /\ attendees = EmptyBag
    /\ \E ids \in SUBSET (1..(MaxMeetings + 1)) :
        \E b \in [ids -> {c \in CreateBodies : CreateMeetingSchema(c)}] :
          calendar = {NewEvent(m, "u1", b[m]) : m \in ids}
    /\ nextId = 1
    /\ procs = [s \in Slots |-> Idle]
    /\ hist = Summary(Idle)

AdapterNext ==
    \E s \in Slots :
        \/ AdapterUpdate(s) \/ AdapterDelete(s)
        \/ AdapterList(s) \/ AdapterEach(s)
        \/ Reap(s, FALSE)

AdapterSpec == AdapterInit /\ [][AdapterNext]_vars

-----------------------------------------------------------------------------
(* Properties *)

\* the List request in slot s returned the meeting with id m
Returned(s, m) == \E i \in DOMAIN procs[s].out : procs[s].out[i].id = m

\* C1: whatever the store, the clock value now and the filters of the query, no
\* meeting returned by List has endTime <= now, and a stored meeting with
\* endTime <= now is not among the meetings returned.
C1_ListHidesEnded ==
    \A s \in Slots :
        (procs[s].op = "List" /\ Done(s)) =>
            /\ \A i \in DOMAIN procs[s].out :
                   procs[s].out[i].meeting.endTime > procs[s].now
            /\ \A m \in DOMAIN meetings :
                   meetings[m].endTime <= procs[s].now => ~Returned(s, m)

\* a List answered while a stored meeting matches every filter of the query but has
\* ended, and is left out
C1_Witness ==
    \E s \in Slots :
        /\ procs[s].op = "List" /\ Done(s)
        /\ \E m \in DOMAIN meetings :
            /\ meetings[m].endTime <= procs[s].now
            /\ ListWhere(meetings[m], procs[s].query, meetings[m].endTime - 1)
            /\ ~Returned(s, m)

\* slot s holds the answered second request of two Join(m, u) in sequence
SecondJoin(s) ==
    /\ procs[s].op = "Join" /\ Done(s)
    /\ procs[s].actor \in Actors
    /\ hist.op = "Join" /\ hist.actor = procs[s].actor /\ hist.id = procs[s].id
    /\ hist.status # 404
    /\ procs[s].id \in DOMAIN meetings

\* C2 as stated: for every existing meeting and authenticated user, the second of
\* two Join calls in sequence answers 200 "Already joined" and exactly one attendee
\* record of the pair exists.
C2_Original ==
    \A s \in Slots :
        SecondJoin(s) =>
            /\ procs[s].status = 200 /\ procs[s].note = "Already joined"
            /\ CountOf(attendees, procs[s].id, procs[s].actor) = 1

\* C2 amended: for every existing meeting M and actor U that has a User row, when
\* the second of two Join(M, U) calls in sequence is checked before M's endTime it
\* answers 200 "Already joined" and exactly one attendee record of (M, U) exists.
C2_JoinTwice ==
    \A s \in Slots :
        (/\ SecondJoin(s)
         /\ procs[s].actor \in Users
         /\ meetings[procs[s].id].endTime > procs[s].now) =>
            /\ procs[s].status = 200 /\ procs[s].note = "Already joined"
            /\ CountOf(attendees, procs[s].id, procs[s].actor) = 1

\* the first Join created the record and the second one, still in time, was answered
C2_Witness ==
    \E s \in Slots :
        /\ SecondJoin(s)
        /\ hist.note = "joined"
        /\ procs[s].actor \in Users
        /\ meetings[procs[s].id].endTime > procs[s].now
        /\ procs[s].note = "Already joined"

\* the step taken is a whole Leave request of an authenticated actor in slot s
LeaveStep(s) ==
    procs[s].op = "idle" /\ procs'[s].op = "Leave" /\ procs'[s].actor \in Actors

\* C3: a Leave(id, actor) always answers 200 and leaves no record of (id, actor);
\* it changes no meeting and no record of another pair; when no record of the pair
\* exists (also when no meeting id exists) the store is unchanged; and a Leave that
\* follows a Leave of the same pair changes nothing, so that twice is as once.
C3_LeaveIdempotent ==
    [][\A s \in Slots :
        LeaveStep(s) =>
            LET id == procs'[s].id
                actor == procs'[s].actor
            IN  /\ procs'[s].pc = "done" /\ procs'[s].status = 200
                /\ CountOf(attendees', id, actor) = 0
                /\ meetings' = meetings /\ calendar' = calendar
                /\ \A r \in DOMAIN attendees :
                       ~(r.meetingId = id /\ r.userId = actor) =>
                           (r \in DOMAIN attendees' /\ attendees'[r] = attendees[r])
                /\ CountOf(attendees, id, actor) = 0 => attendees' = attendees
                /\ (hist.op = "Leave" /\ hist.id = id /\ hist.actor = actor) =>
                       attendees' = attendees
      ]_vars

\* a Leave answered right after a Leave of the same pair, the meeting holding
\* another attendee
C3_Witness ==
    \E s \in Slots :
        /\ procs[s].op = "Leave" /\ Done(s) /\ procs[s].status = 200
        /\ hist.op = "Leave" /\ hist.id = procs[s].id /\ hist.actor = procs[s].actor
        /\ \E r \in DOMAIN attendees : r.meetingId = procs[s].id

\* C4: a Join whose ended check finds the meeting's endTime <= now answers 400
\* "Meeting already ended", and no step of the request up to that answer changes
\* the attendee records.
C4_JoinEndedRejected ==
    [][\A s \in Slots :
        /\ (procs[s].op = "idle" /\ procs'[s].op = "Join") => attendees' = attendees
        /\ (procs[s].op = "Join" /\ procs[s].pc = "check" /\ procs'[s] # procs[s]) =>
              /\ attendees' = attendees
              /\ (/\ procs[s].id \in DOMAIN meetings
                  /\ meetings[procs[s].id].endTime <= clock) =>
                    /\ procs'[s].pc = "done"
                    /\ procs'[s].status = 400
                    /\ procs'[s].note = "Meeting already ended"
      ]_vars

\* a Join of a user without a record rejected exactly at the meeting's endTime
C4_Witness ==
    \E s \in Slots :
        /\ procs[s].op = "Join" /\ Done(s) /\ procs[s].status = 400
        /\ procs[s].note = "Meeting already ended"
        /\ procs[s].id \in DOMAIN meetings
        /\ meetings[procs[s].id].endTime = procs[s].now
        /\ procs[s].actor \in Users
        /\ CountOf(attendees, procs[s].id, procs[s].actor) = 0

\* C5: the meeting and its attendee records go in one step: every attendee record
\* refers to a stored meeting, a step that removes a meeting leaves no record of
\* it, and the transaction of an authorized Delete answers 200 with the meeting
\* and all its records gone; the cleanup before it, whatever the calendar answers
\* or throws, changes no row of the store and hands over to that transaction.
C5_DeleteAtomic ==
    [][/\ \A r \in DOMAIN attendees' : r.meetingId \in DOMAIN meetings'
       /\ \A m \in DOMAIN meetings :
            m \notin DOMAIN meetings' => AttendeesOf(attendees', m) = EmptyBag
       /\ \A s \in Slots :
            /\ (procs[s].op = "Delete" /\ procs[s].pc = "cleanup"
                    /\ procs'[s] # procs[s]) =>
                  /\ procs'[s].pc = "txn"
                  /\ meetings' = meetings /\ attendees' = attendees
            /\ (procs[s].op = "Delete" /\ procs[s].pc = "txn"
                    /\ procs'[s] # procs[s]) =>
                  /\ procs'[s].pc = "done" /\ procs'[s].status = 200
                  /\ procs[s].id \in DOMAIN meetings
                  /\ meetings' = MeetingDelete(meetings, procs[s].id)
                  /\ AttendeesOf(attendees', procs[s].id) = EmptyBag
                  /\ \A r \in DOMAIN attendees :
                         r.meetingId # procs[s].id =>
                             (r \in DOMAIN attendees' /\ attendees'[r] = attendees[r])
      ]_vars

\* a Delete answered 200, the meeting gone, after its calendar cleanup had failed
C5_Witness ==
    \E s \in Slots :
        /\ procs[s].op = "Delete" /\ Done(s) /\ procs[s].status = 200
        /\ procs[s].cal = "error"
        /\ procs[s].id \notin DOMAIN meetings
        /\ AttendeesOf(attendees, procs[s].id) = EmptyBag

\* C6: when Create answers 201, the meeting it inserted has createdById = actor
\* and exactly one attendee record (meeting, actor) exists, with status "going",
\* also in the response, whether the calendar insert returned an id, returned
\* none, threw, or was not tried for lack of a refresh token.
C6_CreateEnrollsCreator ==
    \A s \in Slots :
        (procs[s].op = "Create" /\ Done(s) /\ procs[s].status = 201) =>
            /\ procs[s].cal \in {"ok", "noid", "throw", "notoken"}
            /\ procs[s].id \in DOMAIN meetings
            /\ meetings[procs[s].id].createdById = procs[s].actor
            /\ CountOf(attendees, procs[s].id, procs[s].actor) = 1
            /\ CopiesIn(AttendeeRow(procs[s].id, procs[s].actor), attendees) = 1
            /\ procs[s].out.found
            /\ procs[s].out.meeting.createdById = procs[s].actor
            /\ CopiesIn(AttendeeRow(procs[s].id, procs[s].actor),
                        procs[s].out.attendees) = 1

\* a Create answered 201 although the calendar insert threw
C6_Witness ==
    \E s \in Slots :
        /\ procs[s].op = "Create" /\ Done(s) /\ procs[s].status = 201
        /\ procs[s].cal = "throw"
        /\ CountOf(attendees, procs[s].id, procs[s].actor) = 1

\* C7: a validated Patch of an existing meeting by an authenticated actor that is
\* neither its creator nor an admin answers 403 "Forbidden" at once, with no row
\* of the store and no calendar event changed and without calling
\* updateGoogleEvent.
C7_PatchForbidden ==
    [][\A s \in Slots :
        (/\ procs[s].op = "idle" /\ procs'[s].op = "Patch"
         /\ PatchMeetingSchema(procs'[s].body)
         /\ procs'[s].id \in DOMAIN meetings
         /\ procs'[s].actor \in Actors
         /\ meetings[procs'[s].id].createdById # procs'[s].actor
         /\ Role(procs'[s].actor) # "admin") =>
            /\ procs'[s].pc = "done"
            /\ procs'[s].status = 403 /\ procs'[s].note = "Forbidden"
            /\ ~procs'[s].synced
            /\ meetings' = meetings /\ attendees' = attendees
            /\ calendar' = calendar
      ]_vars

\* a valid Patch by a user on another user's meeting, answered 403
C7_Witness ==
    \E s \in Slots :
        /\ procs[s].op = "Patch" /\ Done(s) /\ procs[s].status = 403
        /\ PatchMeetingSchema(procs[s].body)
        /\ procs[s].actor \in Users
        /\ procs[s].id \in DOMAIN meetings
        /\ meetings[procs[s].id].createdById # procs[s].actor

\* slot s holds B's answered second Join of the scenario: B, not the creator,
\* joined the meeting, the clock went past its endTime, B joins again
RejoinAfterEnd(s) ==
    /\ SecondJoin(s)
    /\ hist.status = 200 /\ hist.note = "joined"
    /\ procs[s].actor # meetings[procs[s].id].createdById
    /\ procs[s].now > meetings[procs[s].id].endTime

\* C8 as stated: the second Join answers "Already joined" and B keeps one record.
C8_Original ==
    \A s \in Slots :
        RejoinAfterEnd(s) =>
            /\ procs[s].status = 200 /\ procs[s].note = "Already joined"
            /\ CountOf(attendees, procs[s].id, procs[s].actor) = 1

\* C8 amended: the second Join is rejected with 400 "Meeting already ended", and
\* B still has exactly one attendee record of the meeting.
C8_RejoinAfterEndRejected ==
    \A s \in Slots :
        RejoinAfterEnd(s) =>
            /\ procs[s].status = 400 /\ procs[s].note = "Meeting already ended"
            /\ CountOf(attendees, procs[s].id, procs[s].actor) = 1

\* the scenario has run: the creator and B both attend, B's second Join is answered
C8_Witness ==
    \E s \in Slots :
        /\ RejoinAfterEnd(s)
        /\ CountOf(attendees, procs[s].id, meetings[procs[s].id].createdById) = 1
        /\ CountOf(attendees, procs[s].id, procs[s].actor) = 1

\* C9: Detail answers 200 with the stored meeting and its attendee records exactly
\* when a meeting with the id is stored, whatever the clock, and 404 exactly when
\* none is.
C9_DetailIgnoresTime ==
    \A s \in Slots :
        (procs[s].op = "Detail" /\ Done(s)) =>
            /\ procs[s].status = 200 <=> procs[s].id \in DOMAIN meetings
            /\ procs[s].status = 404 <=> procs[s].id \notin DOMAIN meetings
            /\ procs[s].id \in DOMAIN meetings =>
                  /\ procs[s].out.found
                  /\ procs[s].out.meeting = meetings[procs[s].id]
                  /\ procs[s].out.attendees = AttendeesOf(attendees, procs[s].id)

\* Detail returned a meeting that has ended, which no List at that time returns
C9_Witness ==
    \E s \in Slots :
        /\ procs[s].op = "Detail" /\ Done(s) /\ procs[s].status = 200
        /\ procs[s].out.meeting.endTime <= procs[s].now
        /\ \A f \in ListQueries : ~ListWhere(procs[s].out.meeting, f, procs[s].now)

\* the answered Join requests of user u for meeting m that got as far as the insert
InsertedJoins(m, u) ==
    {s \in Slots : /\ procs[s].op = "Join" /\ Done(s)
                   /\ procs[s].id = m /\ procs[s].actor = u
                   /\ procs[s].note \in {"joined", "Already joined", "Join failed"}}

\* C10: under every interleaving of concurrent Join requests of one user for one
\* meeting, at most one attendee record of the pair ever exists; every request that
\* passed the ended check answers 200; once one has answered the record exists,
\* and exactly one of them created it ("joined", none when the user is the
\* enrolled creator) while all others answered "Already joined".
C10_ConcurrentJoin ==
    \A m \in DOMAIN meetings, u \in Users :
        /\ CountOf(attendees, m, u) <= 1
        /\ \A s \in InsertedJoins(m, u) :
              procs[s].status = 200 /\ procs[s].note \in {"joined", "Already joined"}
        /\ InsertedJoins(m, u) # {} =>
              /\ CountOf(attendees, m, u) = 1
              /\ Cardinality({s \in InsertedJoins(m, u) : procs[s].note = "joined"})
                    = IF meetings[m].createdById = u THEN 0 ELSE 1

\* every slot has answered a Join of the same pair: one created the record, the
\* others were told "Already joined"
C10_Witness ==
    \E m \in DOMAIN meetings, u \in Users :
        /\ meetings[m].createdById # u
        /\ InsertedJoins(m, u) = Slots
        /\ \E s \in Slots : procs[s].note = "joined"
        /\ \E s \in Slots : procs[s].note = "Already joined"

\* the step taken starts, in slot s, a request for an operation behind requireAuth
GuardedStart(s) ==
    /\ procs[s].op = "idle"
    /\ procs'[s].op \in {"Create", "Join", "Leave", "Patch", "Delete"}

\* C13: a Create, Join, Leave, Patch or Delete request that carries neither a
\* session user nor the admin token is answered 401 "Not authenticated" at once,
\* whatever its id and body, and changes no meeting, no attendee record and no
\* calendar event; List and Detail take no actor and never answer 401.
C13_NotAuthenticated ==
    [][\A s \in Slots :
        /\ (GuardedStart(s) /\ procs'[s].actor \notin Actors) =>
              /\ procs'[s].pc = "done"
              /\ procs'[s].status = 401 /\ procs'[s].note = "Not authenticated"
              /\ meetings' = meetings /\ attendees' = attendees
              /\ calendar' = calendar /\ nextId' = nextId
        /\ (procs[s].op = "idle" /\ procs'[s].op \in {"List", "Detail"}) =>
              /\ procs'[s].actor = "none"
              /\ procs'[s].pc = "done" /\ procs'[s].status \in {200, 404}
      ]_vars

\* an unauthenticated Leave answered 401, the meeting it names keeping its records
C13_Witness ==
    \E s \in Slots :
        /\ procs[s].op = "Leave" /\ Done(s) /\ procs[s].status = 401
        /\ procs[s].actor = "anon"
        /\ AttendeesOf(attendees, procs[s].id) # EmptyBag

\* slot s takes a step of request op from position pc
StepFrom(s, op, pc) ==
    procs[s].op = op /\ procs[s].pc = pc /\ procs'[s] # procs[s]

\* C11: whatever the calendar adapter does in a Create, Patch or Delete (an id,
\* no id, a throw, a missing event, no attempt for lack of a refresh token), the
\* request goes on as in the successful run: the adapter step changes no row and
\* ends no request with an error, Create answers 201 with the meeting as
\* inserted, differing at most in googleEventId, Patch answers 200 with the
\* updated row, and Delete reaches its transaction and answers 200.
C11_CalendarBestEffort ==
    [][\A s \in Slots :
        /\ StepFrom(s, "Create", "calendar") =>
              /\ procs'[s].pc \in {"setEventId", "fetch"}
              /\ meetings' = meetings /\ attendees' = attendees
        /\ StepFrom(s, "Create", "setEventId") =>
              /\ procs'[s].pc = "fetch" /\ attendees' = attendees
              /\ DOMAIN meetings' = DOMAIN meetings
              /\ \A m \in DOMAIN meetings :
                    [meetings'[m] EXCEPT !.googleEventId = NoEvent] =
                    [meetings[m] EXCEPT !.googleEventId = NoEvent]
        /\ StepFrom(s, "Create", "fetch") =>
              /\ procs'[s].pc = "done" /\ procs'[s].status = 201
              /\ meetings' = meetings /\ attendees' = attendees
              /\ [procs'[s].out.meeting EXCEPT !.googleEventId = NoEvent] =
                     NewMeeting(procs[s].body, procs[s].actor)
              /\ procs'[s].out.attendees =
                     AttendeeInsert(EmptyBag, procs[s].id, procs[s].actor)
        /\ StepFrom(s, "Patch", "calendar") =>
              /\ procs'[s].pc = "done" /\ procs'[s].status = 200
              /\ procs'[s].out.meeting = PatchData(procs[s].meeting, procs[s].body)
              /\ procs'[s].out.meeting = meetings[procs[s].id]
              /\ meetings' = meetings /\ attendees' = attendees
        /\ StepFrom(s, "Delete", "cleanup") =>
              /\ procs'[s].pc = "txn"
              /\ meetings' = meetings /\ attendees' = attendees
        /\ StepFrom(s, "Delete", "txn") =>
              /\ procs'[s].pc = "done" /\ procs'[s].status = 200
              /\ procs[s].id \notin DOMAIN meetings'
      ]_vars

\* a Patch answered 200 with the updated row although updateGoogleEvent threw
C11_Witness ==
    \E s \in Slots :
        /\ procs[s].op = "Patch" /\ Done(s) /\ procs[s].status = 200
        /\ procs[s].synced /\ procs[s].cal = "error"
        /\ procs[s].out.meeting = meetings[procs[s].id]

\* C12: a Delete by an authenticated actor answers 404 "Not found" when no meeting
\* has the id, and 403 "Forbidden" when the meeting exists and the actor is
\* neither its creator nor an admin; either answer is given at once, no meeting,
\* attendee record or calendar event having changed and no cleanup path chosen.
C12_DeleteRejected ==
    [][\A s \in Slots :
        (/\ procs[s].op = "idle" /\ procs'[s].op = "Delete"
         /\ procs'[s].actor \in Actors) =>
            LET id == procs'[s].id
                actor == procs'[s].actor
                absent == id \notin DOMAIN meetings
                stranger == /\ ~absent
                            /\ meetings[id].createdById # actor
                            /\ Role(actor) # "admin"
            IN  (absent \/ stranger) =>
                    /\ procs'[s].pc = "done"
                    /\ absent =>
                          (procs'[s].status = 404 /\ procs'[s].note = "Not found")
                    /\ stranger =>
                          (procs'[s].status = 403 /\ procs'[s].note = "Forbidden")
                    /\ procs'[s].path = "none" /\ procs'[s].cal = "none"
                    /\ meetings' = meetings /\ attendees' = attendees
                    /\ calendar' = calendar
      ]_vars

\* a Delete by a user on another user's meeting answered 403 while the meeting, its
\* attendee record and its calendar event are all still there
C12_Witness ==
    \E s \in Slots :
        /\ procs[s].op = "Delete" /\ Done(s) /\ procs[s].status = 403
        /\ procs[s].actor \in Users
        /\ procs[s].id \in DOMAIN meetings
        /\ meetings[procs[s].id].createdById # procs[s].actor
        /\ AttendeesOf(attendees, procs[s].id) # EmptyBag
        /\ \E e \in calendar : e.id = meetings[procs[s].id].googleEventId

\* C14: every stored meeting has startTime < endTime, after any sequence of Create
\* and Patch requests that passed CreateMeetingSchema and PatchMeetingSchema, a
\* Patch that carries only one of the two times included.
C14_StartBeforeEnd ==
    \A m \in DOMAIN meetings : meetings[m].startTime < meetings[m].endTime

\* C15: however Create, Join, Leave and Delete requests interleave at their awaits,
\* every attendee record refers to a stored meeting, also when a Join found the
\* meeting and passed the ended check before a Delete of it committed.
C15_NoOrphanAttendee ==
    \A r \in DOMAIN attendees : r.meetingId \in DOMAIN meetings

\* a Join that had passed its checks, then lost its insert to a committed Delete
C15_Witness ==
    \E s \in Slots :
        /\ procs[s].op = "Join" /\ Done(s)
        /\ procs[s].status = 400 /\ procs[s].note = "Join failed"
        /\ procs[s].actor \in Users
        /\ procs[s].id \notin DOMAIN meetings
        /\ \E t \in Slots :
            /\ procs[t].op = "Delete" /\ Done(t) /\ procs[t].status = 200
            /\ procs[t].id = procs[s].id

\* the meetings eligible for user u at time now: not ended, not attended by u
EligibleIds(u, now) ==
    {m \in DOMAIN meetings :
        meetings[m].endTime > now /\ CountOf(attendees, m, u) = 0}

\* out is the popularity list of user u at time now with the given reason: the
\* TopN most attended eligible meetings, most attended first
IsPopularList(out, u, now, reason) ==
    LET elig == EligibleIds(u, now)
        count(m) == BagCardinality(AttendeesOf(attendees, m))
        listed == {out[i].meeting.id : i \in DOMAIN out}
    IN  /\ Len(out) = Min(TopN, Cardinality(elig))
        /\ listed \subseteq elig /\ Cardinality(listed) = Len(out)
        /\ \A i \in DOMAIN out :
              /\ out[i].score = PopularScore /\ out[i].reason = reason
              /\ out[i].meeting.attendeesCount = count(out[i].meeting.id)
              /\ out[i].meeting.title = meetings[out[i].meeting.id].title
        /\ \A i, j \in DOMAIN out :
              i < j => out[i].meeting.attendeesCount >= out[j].meeting.attendeesCount
        /\ \A m \in elig \ listed :
              \A i \in DOMAIN out : out[i].meeting.attendeesCount >= count(m)

\* slot s holds the answered Recommend of a user without attendance records
NoHistoryRecommend(s) ==
    /\ procs[s].op = "Recommend" /\ Done(s)
    /\ procs[s].actor \in Users
    /\ \A r \in DOMAIN attendees : r.userId # procs[s].actor

FailedRanking(s) ==
    /\ procs[s].op = "Recommend" /\ Done(s)
    /\ procs[s].actor \in Users /\ procs[s].key
    /\ \E r \in DOMAIN attendees : r.userId = procs[s].actor
    /\ procs[s].ai \in {"throw", "noarray", "badjson"}

\* C17: for a user with history, when the ranking model is unavailable, throws or
\* sends a malformed response, Recommend answers what the no-history case answers
\* on the same eligible set: the 5 most attended eligible meetings, most attended
\* first, each with score 50 and the reason 'Popular session you might like'.
C17_FallbackAsNoHistory ==
    \A s \in Slots :
        FailedRanking(s) =>
            /\ procs[s].status = 200
            /\ IsPopularList(procs[s].out, procs[s].actor, procs[s].now,
                             "Popular session you might like")

\* an entry of the ranking names an id that is not eligible
Dropped(s, r) == r.id \notin EligibleIds(procs[s].actor, procs[s].now)

\* C18: every meeting Recommend returns is eligible at the request's now (not
\* ended, not attended by the user), and when a ranking arrived the answer is that
\* ranking, in its order and with its scores and reasons, less the entries whose
\* id is not eligible.
C18_OnlyEligible ==
    \A s \in Slots :
        (procs[s].op = "Recommend" /\ Done(s) /\ procs[s].status = 200) =>
            /\ \A i \in DOMAIN procs[s].out :
                  procs[s].out[i].meeting.id \in
                      EligibleIds(procs[s].actor, procs[s].now)
            /\ procs[s].ai = "rankings" =>
                  LET kept == SelectSeq(procs[s].rankings, LAMBDA r : ~Dropped(s, r))
                  IN  /\ Len(procs[s].out) = Len(kept)
                      /\ \A i \in DOMAIN kept :
                            /\ procs[s].out[i].meeting.id = kept[i].id
                            /\ procs[s].out[i].score = kept[i].score
                            /\ procs[s].out[i].reason = kept[i].reason

\* a ranking that names a meeting the user attends and an eligible one, answered
\* with the eligible one alone
C18_Witness ==
    \E s \in Slots :
        /\ procs[s].op = "Recommend" /\ Done(s) /\ procs[s].ai = "rankings"
        /\ Len(procs[s].rankings) = 2 /\ Len(procs[s].out) = 1
        /\ procs[s].rankings[1].id \in DOMAIN meetings
        /\ CountOf(attendees, procs[s].rankings[1].id, procs[s].actor) = 1
        /\ meetings[procs[s].rankings[1].id].endTime > procs[s].now
        /\ procs[s].out[1].meeting.id = procs[s].rankings[2].id

\* the request in slot s has called the calendar service
CalendarCalled(s) ==
    \/ procs[s].op = "Create" /\ procs[s].cal \in InsertOutcomes
    \/ procs[s].op = "Patch" /\ procs[s].synced
    \/ procs[s].op = "Delete" /\ procs[s].path # "none"

\* the store mutation of the Create or Patch in slot s is in the store
Committed(s) ==
    \/ /\ procs[s].op = "Create"
       /\ procs[s].id \in DOMAIN meetings
       /\ meetings[procs[s].id].createdById = procs[s].actor
       /\ CountOf(attendees, procs[s].id, procs[s].actor) = 1
    \/ /\ procs[s].op = "Patch"
       /\ meetings[procs[s].id] = procs[s].updated

\* C19 as stated: once a Create, Patch or Delete has called the calendar service,
\* its store mutation has committed: the meeting and the creator's record are
\* inserted, the row is updated, the meeting and its records are deleted.
C19_Original ==
    \A s \in Slots :
        CalendarCalled(s) =>
            IF procs[s].op = "Delete"
            THEN /\ procs[s].id \notin DOMAIN meetings
                 /\ AttendeesOf(attendees, procs[s].id) = EmptyBag
            ELSE Committed(s)

\* C19 amended: once a Create or Patch has called the calendar service, its store
\* mutation (meeting and creator record inserted, row updated) has committed; a
\* Delete calls the calendar service before its transaction: when the cleanup has
\* been done and the transaction is still to come, the meeting is in the store
\* as the request found it.
C19_CalendarOrder ==
    \A s \in Slots :
        CalendarCalled(s) =>
            IF procs[s].op = "Delete"
            THEN procs[s].pc = "txn" =>
                    /\ procs[s].id \in DOMAIN meetings
                    /\ meetings[procs[s].id] = procs[s].meeting
            ELSE Committed(s)

\* a Delete whose cleanup has removed the calendar event while the meeting and an
\* attendee record of it are still stored
C19_Witness ==
    \E s \in Slots :
        /\ procs[s].op = "Delete" /\ procs[s].pc = "txn"
        /\ procs[s].path = "byId" /\ procs[s].cal = "ok"
        /\ procs[s].id \in DOMAIN meetings
        /\ AttendeesOf(attendees, procs[s].id) # EmptyBag
        /\ \A e \in calendar : e.id # procs[s].meeting.googleEventId

\* the Delete in slot s was let through and has done its calendar cleanup
CleanedUp(s) ==
    /\ procs[s].op = "Delete"
    /\ procs[s].pc = "txn" \/ (Done(s) /\ procs[s].status = 200)

\* C20: the cleanup of an authorized Delete, for a creator with a refresh token,
\* sends exactly one request: events.delete of the meeting's googleEventId when it
\* has one, and otherwise the search by the meeting's title between startTime
\* less the default window (60 minutes) and endTime plus it; for a creator
\* without a refresh token it sends none.
C20_CleanupPath ==
    \A s \in Slots :
        CleanedUp(s) =>
            LET m == procs[s].meeting
                calls == procs[s].calls
            IN  IF RefreshToken(m.createdById) = "none" THEN calls = {}
                ELSE /\ Cardinality(calls) = 1
                     /\ \A c \in calls :
                          IF m.googleEventId # NoEvent
                          THEN c.kind = "byId" /\ c.eventId = m.googleEventId
                          ELSE /\ c.kind = "byQuery" /\ c.q = m.title
                               /\ c.timeMin = m.startTime - DefaultWindow
                               /\ c.timeMax = m.endTime + DefaultWindow

\* an answered Delete of a meeting with a stored event id, cleaned up by that id
C20_Witness ==
    \E s \in Slots :
        /\ CleanedUp(s) /\ Done(s)
        /\ procs[s].meeting.googleEventId # NoEvent
        /\ \E c \in procs[s].calls : c.kind = "byId"

\* a text field of a meeting row as a calendar event shows it: absent when the
\* row has null or the empty string
Shown(v) == IF Truthy(v) THEN v ELSE NULL

\* C21: an authorized Patch calls updateGoogleEvent exactly when the meeting as
\* read before the update has a googleEventId and its creator a refresh token,
\* and when events.patch succeeds the event has the summary, description,
\* location, start and end of the updated row.
C21_PatchMirrors ==
    \A s \in Slots :
        (procs[s].op = "Patch" /\ Done(s) /\ procs[s].status = 200) =>
            /\ procs[s].synced <=>
                  /\ procs[s].meeting.googleEventId # NoEvent
                  /\ RefreshToken(procs[s].meeting.createdById) # "none"
            /\ procs[s].cal = "ok" =>
                  \A e \in EventsById(calendar, procs[s].meeting.createdById,
                                      procs[s].meeting.googleEventId) :
                      /\ e.summary = procs[s].updated.title
                      /\ e.description = Shown(procs[s].updated.description)
                      /\ e.location = Shown(procs[s].updated.location)
                      /\ e.start = procs[s].updated.startTime
                      /\ e.end = procs[s].updated.endTime

\* the value a Patch with value v in its body leaves in a text field holding old
Patched(v, old) == IF v = UNDEF THEN old ELSE v

\* C22: the update of an authorized Patch writes, in the meeting it names, the
\* fields its body carries (null and the empty string included) and nothing
\* else: omitted fields, createdById, googleEventId, the other meetings and all
\* attendee records stay, no other step of the Patch changes the store, and no
\* step of any request changes the createdById of a stored meeting.
C22_PatchFrame ==
    [][/\ \A m \in DOMAIN meetings \cap DOMAIN meetings' :
            meetings'[m].createdById = meetings[m].createdById
       /\ \A s \in Slots :
            /\ (procs[s].op = "idle" /\ procs'[s].op = "Patch") =>
                  (meetings' = meetings /\ attendees' = attendees)
            /\ StepFrom(s, "Patch", "calendar") =>
                  (meetings' = meetings /\ attendees' = attendees)
            /\ StepFrom(s, "Patch", "update") =>
                  LET id == procs[s].id
                      b == procs[s].body
                      old == meetings[id]
                      new == meetings'[id]
                  IN  /\ attendees' = attendees
                      /\ DOMAIN meetings' = DOMAIN meetings
                      /\ \A m \in DOMAIN meetings \ {id} : meetings'[m] = meetings[m]
                      /\ new.title = Patched(b.title, old.title)
                      /\ new.description = Patched(b.description, old.description)
                      /\ new.subject = Patched(b.subject, old.subject)
                      /\ new.level = Patched(b.level, old.level)
                      /\ new.specialization =
                             Patched(b.specialization, old.specialization)
                      /\ new.location = Patched(b.location, old.location)
                      /\ new.onlineUrl = Patched(b.onlineUrl, old.onlineUrl)
                      /\ new.startTime =
                             IF b.startTime = NoTime THEN old.startTime ELSE b.startTime
                      /\ new.endTime =
                             IF b.endTime = NoTime THEN old.endTime ELSE b.endTime
                      /\ new.createdById = old.createdById
                      /\ new.googleEventId = old.googleEventId
      ]_vars

\* a Patch answered after its null description replaced a stored one and its
\* empty location a null one, an omitted field, the event id and the creator's
\* attendee record kept
C22_Witness ==
    \E s \in Slots :
        /\ procs[s].op = "Patch" /\ Done(s) /\ procs[s].status = 200
        /\ Truthy(procs[s].meeting.description)
        /\ procs[s].updated.description = NULL
        /\ procs[s].meeting.location = NULL /\ procs[s].updated.location = <<>>
        /\ Truthy(procs[s].updated.specialization)
        /\ procs[s].updated.specialization = procs[s].meeting.specialization
        /\ procs[s].updated.googleEventId # NoEvent
        /\ CountOf(attendees, procs[s].id, procs[s].meeting.createdById) = 1

\* C23: in a Create whose creator has no refresh token the adapter returns null
\* and the calendar is not touched; the answered meeting, and the stored one,
\* has a googleEventId exactly when events.insert returned an id, and none when
\* there was no token, no id came back, or the call threw; no other step than
\* the one after a returned id sets a googleEventId.
C23_EventIdIffReturned ==
    [][/\ \A m \in DOMAIN meetings \cap DOMAIN meetings' :
            meetings'[m].googleEventId # meetings[m].googleEventId =>
                \E s \in Slots : /\ StepFrom(s, "Create", "setEventId")
                                 /\ procs[s].cal = "ok" /\ procs[s].id = m
       /\ \A s \in Slots :
            /\ StepFrom(s, "Create", "calendar") =>
                  /\ RefreshToken(procs[s].actor) = "none" =>
                        (procs'[s].cal = "notoken" /\ calendar' = calendar)
                  /\ RefreshToken(procs[s].actor) # "none" =>
                        procs'[s].cal \in {"ok", "noid", "throw"}
                  /\ procs'[s].cal # "ok" => calendar' = calendar
            /\ StepFrom(s, "Create", "fetch") =>
                  /\ procs'[s].pc = "done"
                  /\ procs'[s].out.meeting = meetings[procs[s].id]
                  /\ procs'[s].out.meeting.googleEventId # NoEvent <=>
                         procs[s].cal = "ok"
      ]_vars

\* a Create by a user with a refresh token answered 201 without a googleEventId,
\* events.insert having returned no id
C23_Witness ==
    \E s \in Slots :
        /\ procs[s].op = "Create" /\ Done(s) /\ procs[s].status = 201
        /\ procs[s].cal = "noid"
        /\ procs[s].out.meeting.googleEventId = NoEvent
        /\ meetings[procs[s].id].googleEventId = NoEvent

\* C24: updateGoogleEvent, deleteGoogleEvent and every events.delete inside
\* deleteGoogleEventByQuery take the provider's 404 and 410 for success: the call
\* resolves, or the loop goes on to the next event, the calendar unchanged; so a
\* delete of an event already deleted resolves. Every other provider error
\* rejects the call.
C24_MissingTolerated ==
    [][\A s \in Slots :
        /\ (procs[s].op = "idle"
              /\ procs'[s].op \in {"updateGoogleEvent", "deleteGoogleEvent"}) =>
              /\ procs'[s].cal \in {"notfound", "gone"} =>
                    (procs'[s].result = "resolved" /\ calendar' = calendar)
              /\ procs'[s].cal = "ok" => procs'[s].result = "resolved"
              /\ procs'[s].cal = "error" =>
                    (procs'[s].result = "rejected" /\ calendar' = calendar)
        /\ (procs[s].op = "idle" /\ procs'[s].op = "deleteGoogleEventByQuery") =>
              (procs'[s].cal = "error" =>
                    (procs'[s].pc = "done" /\ procs'[s].result = "rejected"))
        /\ (StepFrom(s, "deleteGoogleEventByQuery", "each") /\ procs[s].items # {}) =>
              /\ procs'[s].cal \in {"notfound", "gone"} =>
                    /\ procs'[s].pc = "each" /\ calendar' = calendar
                    /\ Cardinality(procs'[s].items) = Cardinality(procs[s].items) - 1
              /\ procs'[s].cal = "ok" => procs'[s].pc = "each"
              /\ procs'[s].cal = "error" =>
                    (procs'[s].pc = "done" /\ procs'[s].result = "rejected")
        /\ (StepFrom(s, "deleteGoogleEventByQuery", "each") /\ procs[s].items = {}) =>
              (procs'[s].pc = "done" /\ procs'[s].result = "resolved")
      ]_vars

\* a deleteGoogleEvent that deleted an event, and a second one of the same event,
\* answered 410 by the provider, that resolved
C24_Witness ==
    \E s, t \in Slots :
        /\ procs[s].op = "deleteGoogleEvent" /\ procs[s].cal = "ok"
        /\ procs[t].op = "deleteGoogleEvent" /\ procs[t].cal = "gone"
        /\ procs[t].id = procs[s].id
        /\ procs[t].result = "resolved"

\* the Recommend in slot s has its list of available meetings
HasAvailable(s) ==
    /\ procs[s].op = "Recommend"
    /\ procs[s].pc = "rank" \/ (Done(s) /\ procs[s].actor \in Users /\ procs[s].key)

\* C25: the list getAvailableMeetings returns holds only meetings that end after
\* now and that the user does not attend, at most 20 of them, and all of them
\* when the store holds at most 20 such meetings.
C25_Eligible ==
    \A s \in Slots :
        HasAvailable(s) =>
            LET elig == EligibleIds(procs[s].actor, procs[s].now)
                ids == {procs[s].available[i].id : i \in DOMAIN procs[s].available}
            IN  /\ ids \subseteq elig
                /\ Len(procs[s].available) <= CandidateCap
                /\ Cardinality(elig) <= CandidateCap => ids = elig

\* the step taken belongs to a Join or Leave request in slot s
MemberStep(s) ==
    \/ procs[s].op = "idle" /\ procs'[s].op \in {"Join", "Leave"}
    \/ procs[s].op = "Join" /\ procs[s].pc \in {"check", "insert"}
                            /\ procs'[s] # procs[s]

\* attendee records other than those of the pair (m, u)
OtherRecords(att, m, u) ==
    [r \in {x \in DOMAIN att : ~(x.meetingId = m /\ x.userId = u)} |-> att[r]]

Quiet ==
    \A s \in Slots :
        /\ procs[s].op # "idle" => Done(s)
        /\ procs[s].op \in {"Create", "Delete"} =>
               procs[s].cal \in {"none", "notoken", "ok"}

\* C27: when the Create of a meeting by a user with a refresh token and a Delete
\* of that meeting have both finished, however their steps interleaved, the
\* meeting is gone and the calendar provider never failed, the calendar holds no
\* event that this Create inserted.
C27_NoEventLeft ==
    \A s, t \in Slots :
        (/\ Quiet
         /\ procs[s].op = "Create" /\ RefreshToken(procs[s].actor) # "none"
         /\ procs[t].op = "Delete" /\ procs[t].id = procs[s].id
         /\ procs[t].status = 200
         /\ procs[s].id \notin DOMAIN meetings) =>
            NewEvent(procs[s].id, procs[s].actor, procs[s].body) \notin calendar

\* slots s and t hold two answered Delete requests for the meeting that both
\* found and were both let through
TwoDeletes(s, t) ==
    /\ s # t
    /\ procs[s].op = "Delete" /\ Done(s) /\ procs[s].status \notin {401, 403, 404}
    /\ procs[t].op = "Delete" /\ Done(t) /\ procs[t].status \notin {401, 403, 404}
    /\ procs[s].id = procs[t].id

\* C28: when two authorized Delete requests for the same meeting have both been
\* answered, however their steps interleaved, neither the meeting nor an attendee
\* record of it is stored, and each request was answered 200 (or 404), never with
\* a server error.
C28_ConcurrentDelete ==
    \A s, t \in Slots :
        TwoDeletes(s, t) =>
            /\ procs[s].id \notin DOMAIN meetings
            /\ AttendeesOf(attendees, procs[s].id) = EmptyBag
            /\ procs[s].status \in {200, 404}
            /\ procs[t].status \in {200, 404}

\* C29: a step of Join that inserts an attendee record does so for a meeting whose
\* stored endTime is later than the clock at that moment, whatever ticks of the
\* clock and steps of a concurrent Patch came between Join's ended check and its
\* insert.
C29_NoJoinAfterEnd ==
    [][\A s \in Slots :
          (/\ procs[s].op = "Join" /\ procs[s].pc = "insert"
           /\ CountOf(attendees', procs[s].id, procs[s].actor)
                  > CountOf(attendees, procs[s].id, procs[s].actor)) =>
              meetings[procs[s].id].endTime > clock]_vars

=============================================================================
